---- MODULE Spec2Model ----
(***************************************************************************)
(* Model of the accessor generator (package generator, func Generate and   *)
(* its helpers).  A Go string is a sequence of Unicode code points; the    *)
(* places where the code works on bytes instead (structName[0]) are        *)
(* modelled through the UTF-8 encoding of the code points.                 *)
(***************************************************************************)
EXTENDS Integers, Sequences, FiniteSets, TLC

VARIABLES pkg, typeName, output, receiver, pc, pos, accessors, imports,
          buf, content, outPath, returned, fs, writes

vars ==
    <<pkg, typeName, output, receiver, pc, pos, accessors, imports,
      buf, content, outPath, returned, fs, writes>>

-----------------------------------------------------------------------------
(* String literals, written as code points.                                *)

\* ""
Str_empty ==
    << >>

\* "Widget"
Str_Widget ==
    <<87, 105, 100, 103, 101, 116>>

\* "Élan"  (U+00C9 l a n)
Str_Elan ==
    <<201, 108, 97, 110>>

\* "self"
Str_self ==
    <<115, 101, 108, 102>>

\* "out.go"
Str_out_go ==
    <<111, 117, 116, 46, 103, 111>>

\* "."
Str_dot ==
    <<46>>

\* "/"
Str_slash ==
    <<47>>

\* "*"
Str_star ==
    <<42>>

\* "model"
Str_model ==
    <<109, 111, 100, 101, 108>>

\* "name"
Str_name ==
    <<110, 97, 109, 101>>

\* "age"
Str_age ==
    <<97, 103, 101>>

\* "id"
Str_id ==
    <<105, 100>>

\* "tag"
Str_tag ==
    <<116, 97, 103>>

\* "string"
Str_string ==
    <<115, 116, 114, 105, 110, 103>>

\* "time.Time"
Str_time_Time ==
    <<116, 105, 109, 101, 46, 84, 105, 109, 101>>

\* "*os.File"
Str_ptr_os_File ==
    <<42, 111, 115, 46, 70, 105, 108, 101>>

\* "time"
Str_time ==
    <<116, 105, 109, 101>>

\* "os"
Str_os ==
    <<111, 115>>

\* "github.com/x/clock"
Str_clock_path ==
    <<103, 105, 116, 104, 117, 98, 46, 99, 111, 109, 47, 120, 47, 99, 108,
      111, 99, 107>>

\* "Label"
Str_Label ==
    <<76, 97, 98, 101, 108>>

\* "Relabel"
Str_Relabel ==
    <<82, 101, 108, 97, 98, 101, 108>>

\* "get-x"
Str_get_x ==
    <<103, 101, 116, 45, 120>>

\* "Set"
Str_Set ==
    <<83, 101, 116>>

\* "_"
Str_underscore ==
    <<95>>

\* "_accessor.go"
Str_accessor_go ==
    <<95, 97, 99, 99, 101, 115, 115, 111, 114, 46, 103, 111>>

\* "UserProfile"
Str_UserProfile ==
    <<85, 115, 101, 114, 80, 114, 111, 102, 105, 108, 101>>

\* "HTTPServer"
Str_HTTPServer ==
    <<72, 84, 84, 80, 83, 101, 114, 118, 101, 114>>

\* "user_profile_accessor.go"
Str_user_profile_accessor_go ==
    <<117, 115, 101, 114, 95, 112, 114, 111, 102, 105, 108, 101, 95, 97, 99,
      99, 101, 115, 115, 111, 114, 46, 103, 111>>

\* "widget_accessor.go"
Str_widget_accessor_go ==
    <<119, 105, 100, 103, 101, 116, 95, 97, 99, 99, 101, 115, 115, 111, 114,
      46, 103, 111>>

\* "http_server_accessor.go"
Str_http_server_accessor_go ==
    <<104, 116, 116, 112, 95, 115, 101, 114, 118, 101, 114, 95, 97, 99, 99,
      101, 115, 115, 111, 114, 46, 103, 111>>

-----------------------------------------------------------------------------
(* Character classes and the string functions of the Go library that the   *)
(* generator calls.                                                        *)

\* [A-Z]
AsciiUpper ==
    65..90

\* [a-z]
AsciiLower ==
    97..122

\* [0-9]
AsciiDigit ==
    48..57

\* Latin-1 capital letters U+00C0..U+00DE except the multiplication sign
Latin1Upper ==
    (192..222) \ {215}

\* Latin-1 small letters that have a capital in Latin-1
Latin1Lower ==
    (224..254) \ {247}

\* unicode.ToLower on one code point
ToLowerRune(c) ==
    IF c \in AsciiUpper \/ c \in Latin1Upper THEN c + 32 ELSE c

\* unicode.ToTitle on one code point
ToTitleRune(c) ==
    IF c \in AsciiLower \/ c \in Latin1Lower THEN c - 32 ELSE c

\* strings.ToLower
ToLower(s) ==
    [i \in 1..Len(s) |-> ToLowerRune(s[i])]

\* strings.isSeparator: letters, digits and underscore are not separators
isSeparator(c) ==
    IF c < 128
    THEN ~(c \in AsciiUpper \/ c \in AsciiLower \/ c \in AsciiDigit \/ c = 95)
    ELSE IF c \in Latin1Upper \/ c \in Latin1Lower \/ c = 223 \/ c = 255
         THEN FALSE
         ELSE c \in {133, 160}

\* strings.Title: title-case the first letter of every word
Title(s) ==
    [i \in 1..Len(s) |->
        IF i = 1 \/ isSeparator(s[i - 1]) THEN ToTitleRune(s[i]) ELSE s[i]]

\* s[0] of a Go string: the first byte of the UTF-8 encoding
FirstByte(s) ==
    LET c == s[1] IN
    IF c < 128 THEN c
    ELSE IF c < 2048 THEN 192 + (c \div 64)
    ELSE IF c < 65536 THEN 224 + (c \div 4096)
    ELSE 240 + (c \div 262144)

\* strings.TrimPrefix(s, "*")
TrimPrefixStar(s) ==
    IF Len(s) >= 1 /\ s[1] = Str_star[1] THEN SubSeq(s, 2, Len(s)) ELSE s

\* index of the first occurrence of code point c in s, 0 if there is none
IndexRune(s, c) ==
    IF \E i \in 1..Len(s) : s[i] = c
    THEN CHOOSE i \in 1..Len(s) : s[i] = c /\ \A j \in 1..(i - 1) : s[j] # c
    ELSE 0

\* strings.Split(s, ".")[0]
SplitDotFirst(s) ==
    LET i == IndexRune(s, Str_dot[1]) IN
    IF i = 0 THEN s ELSE SubSeq(s, 1, i - 1)

\* index of the last occurrence of code point c in s, 0 if there is none
LastIndexRune(s, c) ==
    IF \E i \in 1..Len(s) : s[i] = c
    THEN CHOOSE i \in 1..Len(s) :
            s[i] = c /\ \A j \in (i + 1)..Len(s) : s[j] # c
    ELSE 0

RECURSIVE StripTrailingSlashes(_)
StripTrailingSlashes(s) ==
    IF Len(s) > 1 /\ s[Len(s)] = Str_slash[1]
    THEN StripTrailingSlashes(SubSeq(s, 1, Len(s) - 1))
    ELSE s

\* filepath.Base
Base(path) ==
    IF path = Str_empty THEN Str_dot
    ELSE LET p == StripTrailingSlashes(path)
             i == LastIndexRune(p, Str_slash[1])
         IN IF p = Str_slash THEN p ELSE SubSeq(p, i + 1, Len(p))

\* the elements of a slash-separated path, "" and "." elements dropped
RECURSIVE PathElems(_)
PathElems(s) ==
    LET i == IndexRune(s, Str_slash[1])
        head == IF i = 0 THEN s ELSE SubSeq(s, 1, i - 1)
        keep == IF head = Str_empty \/ head = Str_dot THEN << >> ELSE <<head>>
    IN IF i = 0 THEN keep ELSE keep \o PathElems(SubSeq(s, i + 1, Len(s)))

RECURSIVE JoinElems(_)
JoinElems(elems) ==
    IF Len(elems) = 0 THEN Str_empty
    ELSE IF Len(elems) = 1 THEN elems[1]
    ELSE elems[1] \o Str_slash \o JoinElems(Tail(elems))

\* filepath.Join(dir, name) for paths without ".." elements: empty elements
\* are ignored and the result is cleaned
Join(dir, name) ==
    LET raw == IF dir = Str_empty THEN name
               ELSE IF name = Str_empty THEN dir
               ELSE dir \o Str_slash \o name
        rooted == Len(raw) > 0 /\ raw[1] = Str_slash[1]
        body == JoinElems(PathElems(raw))
    IN IF raw = Str_empty THEN Str_empty
       ELSE IF rooted THEN Str_slash \o body
       ELSE IF body = Str_empty THEN Str_dot
       ELSE body

\* s < t in the byte-wise order of Go strings (the order of code points)
StrLess(s, t) ==
    \E k \in 1..(Len(t)) :
        /\ k <= Len(s) + 1
        /\ \A j \in 1..(k - 1) : s[j] = t[j]
        /\ (k = Len(s) + 1 \/ s[k] < t[k])

RECURSIVE InsertSorted(_, _)
InsertSorted(sorted, s) ==
    IF Len(sorted) = 0 THEN <<s>>
    ELSE IF StrLess(s, Head(sorted)) THEN <<s>> \o sorted
    ELSE <<Head(sorted)>> \o InsertSorted(Tail(sorted), s)

\* sort.Strings
RECURSIVE SortStrings(_)
SortStrings(names) ==
    IF Len(names) = 0 THEN << >>
    ELSE InsertSorted(SortStrings(Tail(names)), Head(names))

-----------------------------------------------------------------------------
(* Pointers to string and to types.Tag: the empty tuple is nil, a one-     *)
(* element tuple points to its element.                                    *)

NilPtr ==
    << >>

Ptr(v) ==
    <<v>>

Deref(p) ==
    p[1]

-----------------------------------------------------------------------------
(* Naming.                                                                 *)

receiverName(userInput, structName) ==
    IF userInput # Str_empty
    THEN userInput
    ELSE <<ToLowerRune(FirstByte(structName))>>

\* end of the longest run of [a-z] that starts at index i (i itself is in it)
RECURSIVE LowerRunEnd(_, _)
LowerRunEnd(s, i) ==
    IF i + 1 <= Len(s) /\ s[i + 1] \in AsciiLower
    THEN LowerRunEnd(s, i + 1)
    ELSE i

\* regexp "(.)([A-Z][a-z]+)" matches at index i
firstCapMatches(s, i) ==
    /\ i + 2 <= Len(s)
    /\ s[i] # 10
    /\ s[i + 1] \in AsciiUpper
    /\ s[i + 2] \in AsciiLower

\* firstCapMatcher.ReplaceAllString(s, "${1}_${2}"), scanning from index i:
\* leftmost matches, greedy, not overlapping
RECURSIVE firstCapReplaceFrom(_, _)
firstCapReplaceFrom(s, i) ==
    IF i > Len(s) THEN << >>
    ELSE IF firstCapMatches(s, i)
    THEN LET e == LowerRunEnd(s, i + 2) IN
         <<s[i]>> \o Str_underscore \o SubSeq(s, i + 1, e)
            \o firstCapReplaceFrom(s, e + 1)
    ELSE <<s[i]>> \o firstCapReplaceFrom(s, i + 1)

firstCapReplace(s) ==
    firstCapReplaceFrom(s, 1)

\* regexp "([a-z0-9])([A-Z])" matches at index i
articleCapMatches(s, i) ==
    /\ i + 1 <= Len(s)
    /\ (s[i] \in AsciiLower \/ s[i] \in AsciiDigit)
    /\ s[i + 1] \in AsciiUpper

\* articleCapMatcher.ReplaceAllString(s, "${1}_${2}"), scanning from index i
RECURSIVE articleCapReplaceFrom(_, _)
articleCapReplaceFrom(s, i) ==
    IF i > Len(s) THEN << >>
    ELSE IF articleCapMatches(s, i)
    THEN <<s[i]>> \o Str_underscore \o <<s[i + 1]>>
            \o articleCapReplaceFrom(s, i + 2)
    ELSE <<s[i]>> \o articleCapReplaceFrom(s, i + 1)

\* the second rewrite pass left out
articleCapReplace_Skipped(s) ==
    s

articleCapReplace(s) ==
    articleCapReplaceFrom(s, 1)

outputFile(out, tName, dir) ==
    LET name == articleCapReplace(firstCapReplace(tName))
        file == IF out = Str_empty
                THEN ToLower(name \o Str_accessor_go)
                ELSE out
    IN Join(dir, file)

-----------------------------------------------------------------------------
(* Rendering.  The text of an accessor is the template it was rendered     *)
(* from and the value substituted at each placeholder; {{.Receiver}}       *)
(* occurs in the signature and in the body.                                *)

setterMethodName(field) ==
    IF Deref(Deref(field.Tag).Setter) = Str_empty
    THEN Str_Set \o Title(field.Name)
    ELSE Deref(Deref(field.Tag).Setter)

\* the getter always named after the field
getterMethodName_Default(field) ==
    Title(field.Name)

getterMethodName(field) ==
    IF Deref(Deref(field.Tag).Getter) = Str_empty
    THEN Title(field.Name)
    ELSE Deref(Deref(field.Tag).Getter)

setterGenerator(rcv, structName, field) ==
    [tpl |-> "setter",
     Receiver |-> receiverName(rcv, structName),
     Struct |-> structName,
     MethodName |-> setterMethodName(field),
     Type |-> field.DataType,
     BodyReceiver |-> receiverName(rcv, structName),
     Field |-> field.Name]

getterGenerator(rcv, structName, field) ==
    [tpl |-> "getter",
     Receiver |-> receiverName(rcv, structName),
     Struct |-> structName,
     MethodName |-> getterMethodName(field),
     Type |-> field.DataType,
     BodyReceiver |-> receiverName(rcv, structName),
     Field |-> field.Name]

-----------------------------------------------------------------------------
(* Import resolution of one field (Generate, the block before rendering).  *)

typePkgOf(field) ==
    SplitDotFirst(TrimPrefixStar(field.DataType))

\* the first import of the file whose name is typePkg, as a 0/1-element tuple
RECURSIVE findImport(_, _)
findImport(fileImports, typePkg) ==
    IF Len(fileImports) = 0 THEN << >>
    ELSE IF Head(fileImports).Name = typePkg THEN <<Head(fileImports)>>
    ELSE findImport(Tail(fileImports), typePkg)

recordImport(importMap, file, field) ==
    LET typePkg == typePkgOf(field)
        found == findImport(file.Imports, typePkg)
    IN IF typePkg \in DOMAIN importMap THEN importMap
       ELSE IF Len(found) = 0 THEN importMap
       ELSE (found[1].Name :> found[1].PkgPath) @@ importMap

-----------------------------------------------------------------------------
(* Output assembly.  The buffer is the sequence of its lines.              *)

importLine(name, path) ==
    IF name = Base(path)
    THEN [kind |-> "import", alias |-> Str_empty, path |-> path]
    ELSE [kind |-> "import", alias |-> name, path |-> path]

\* the sequences that list every element of the set exactly once: the orders
\* in which a Go map with these keys can be ranged over
Orders(keys) ==
    {o \in [1..Cardinality(keys) -> keys] :
        \A i, j \in 1..Cardinality(keys) : i # j => o[i] # o[j]}

\* g.write without the sort.Strings call
write_Unsorted(pkgName, importMap, accs, rangeOrder) ==
    LET importBlock ==
            IF Cardinality(DOMAIN importMap) > 0
            THEN <<[kind |-> "import("]>>
                 \o [i \in 1..Len(rangeOrder) |->
                        importLine(rangeOrder[i], importMap[rangeOrder[i]])]
                 \o <<[kind |-> ")"]>>
            ELSE << >>
    IN <<[kind |-> "header"], [kind |-> "package", name |-> pkgName]>>
       \o importBlock
       \o [i \in 1..Len(accs) |-> [kind |-> "func", text |-> accs[i]]]

\* g.write; rangeOrder is the order in which "range importMap" yields the keys
write(pkgName, importMap, accs, rangeOrder) ==
    LET importNames == SortStrings(rangeOrder)
        importBlock ==
            IF Cardinality(DOMAIN importMap) > 0
            THEN <<[kind |-> "import("]>>
                 \o [i \in 1..Len(importNames) |->
                        importLine(importNames[i], importMap[importNames[i]])]
                 \o <<[kind |-> ")"]>>
            ELSE << >>
    IN <<[kind |-> "header"], [kind |-> "package", name |-> pkgName]>>
       \o importBlock
       \o [i \in 1..Len(accs) |-> [kind |-> "func", text |-> accs[i]]]

\* a Go identifier
IsIdentifier(s) ==
    /\ Len(s) > 0
    /\ \A i \in 1..Len(s) :
          \/ s[i] \in AsciiUpper \/ s[i] \in AsciiLower \/ s[i] = 95
          \/ s[i] \in Latin1Upper \/ s[i] \in Latin1Lower
          \/ (i > 1 /\ s[i] \in AsciiDigit)

\* the line parses as Go source
ValidLine(line) ==
    IF line.kind = "package" THEN IsIdentifier(line.name)
    ELSE IF line.kind = "import"
    THEN line.alias = Str_empty \/ IsIdentifier(line.alias)
    ELSE IF line.kind = "func"
    THEN /\ IsIdentifier(line.text.Receiver)
         /\ IsIdentifier(line.text.BodyReceiver)
         /\ IsIdentifier(line.text.Struct)
         /\ IsIdentifier(line.text.MethodName)
         /\ IsIdentifier(line.text.Field)
    ELSE TRUE

\* import line a sorts before import line b in ast.SortImports: by path,
\* then by name
ImportLineLess(a, b) ==
    \/ StrLess(a.path, b.path)
    \/ (a.path = b.path /\ StrLess(a.alias, b.alias))

RECURSIVE InsertImportLine(_, _)
InsertImportLine(sorted, l) ==
    IF Len(sorted) = 0 THEN <<l>>
    ELSE IF ImportLineLess(l, Head(sorted)) THEN <<l>> \o sorted
    ELSE <<Head(sorted)>> \o InsertImportLine(Tail(sorted), l)

RECURSIVE SortImportLines(_)
SortImportLines(ls) ==
    IF Len(ls) = 0 THEN << >>
    ELSE InsertImportLine(SortImportLines(Tail(ls)), Head(ls))

\* format.Source on a buffer that parses: the import block is sorted by
\* import path, the declarations keep their order
gofmt(b) ==
    LET isImp(l) == l.kind = "import"
        before == SelectSeq(b, LAMBDA l : l.kind \in {"header", "package", "import("})
        imps == SelectSeq(b, isImp)
        after == SelectSeq(b, LAMBDA l : l.kind \in {")", "func"})
    IN before \o SortImportLines(imps) \o after

\* g.format: the pair (bytes, error)
format(b) ==
    IF \A i \in 1..Len(b) : ValidLine(b[i])
    THEN [src |-> gofmt(b), err |-> "nil"]
    ELSE [src |-> b, err |-> "FormatError"]

-----------------------------------------------------------------------------
(* The packages Generate is run on.                                        *)

\* most files in a package
MaxFiles ==
    2

\* most fields, in total, of the structs of the requested name in a package
MaxFields ==
    2

Tag(getter, setter) ==
    Ptr([Getter |-> getter, Setter |-> setter])

\* the data type and the tag of a field
FieldKinds ==
    { [DataType |-> Str_time_Time, Tag |-> NilPtr],
      [DataType |-> Str_time_Time, Tag |-> Tag(NilPtr, NilPtr)],
      [DataType |-> Str_string, Tag |-> Tag(Ptr(Str_empty), NilPtr)],
      [DataType |-> Str_ptr_os_File, Tag |-> Tag(Ptr(Str_empty), Ptr(Str_empty))],
      [DataType |-> Str_time, Tag |-> Tag(NilPtr, Ptr(Str_empty))],
      [DataType |-> Str_time_Time, Tag |-> Tag(Ptr(Str_Label), Ptr(Str_Relabel))],
      [DataType |-> Str_string, Tag |-> Tag(Ptr(Str_get_x), NilPtr)] }

FieldNames ==
    <<Str_name, Str_age, Str_id, Str_tag>>

\* the i-th field of a struct
MkField(i, kind) ==
    [Name |-> FieldNames[((i - 1) % Len(FieldNames)) + 1],
     DataType |-> kind.DataType,
     Tag |-> kind.Tag]

\* import list: os and time, both under their own name
StdImports ==
    <<[Name |-> Str_os, PkgPath |-> Str_os],
      [Name |-> Str_time, PkgPath |-> Str_time]>>

\* import list: another package under the alias time
ClockImports ==
    <<[Name |-> Str_time, PkgPath |-> Str_clock_path]>>

\* the import lists of the files of a package, by parity of the file index
ImportLayouts ==
    { <<StdImports, ClockImports>>, <<ClockImports, StdImports>> }

\* a struct whose name differs from tName in the case of its first letter
\* only, with a field that asks for both accessors
OtherStruct(tName) ==
    [Name |-> ToLower(tName),
     Fields |-> <<MkField(1, [DataType |-> Str_ptr_os_File,
                              Tag |-> Tag(Ptr(Str_empty), Ptr(Str_empty))])>>]

RECURSIVE SumSeq(_)
SumSeq(c) ==
    IF Len(c) = 0 THEN 0 ELSE Head(c) + SumSeq(Tail(c))

\* the i-th file of a package: a struct named tName with the fields of the
\* given kinds, after the other struct in the odd files and before it in the
\* even ones
MkFile(tName, i, layout, kinds) ==
    LET st == [Name |-> tName,
               Fields |-> [x \in 1..Len(kinds) |-> MkField(x, kinds[x])]]
    IN [Imports |-> layout[((i - 1) % 2) + 1],
        Structs |-> IF i % 2 = 1 THEN <<OtherStruct(tName), st>>
                                 ELSE <<st, OtherStruct(tName)>>]

\* the package whose i-th file has counts[i] fields in its struct, the
\* fields of all files being of the kinds ks[1], ks[2], ...
MkPackage(tName, dir, layout, counts, ks) ==
    [Name |-> Str_model,
     Dir |-> dir,
     Files |-> [i \in 1..Len(counts) |->
                  MkFile(tName, i, layout,
                         [x \in 1..counts[i] |->
                            ks[SumSeq(SubSeq(counts, 1, i - 1)) + x]])]]

\* p is a package of at most maxFiles files and at most MaxFields fields
IsPackage(p, tName, dir, maxFiles) ==
    \E nf \in 1..maxFiles :
       \E layout \in ImportLayouts :
          \E counts \in [1..nf -> 0..MaxFields] :
             /\ SumSeq(counts) <= MaxFields
             /\ \E ks \in [1..SumSeq(counts) -> FieldKinds] :
                   p = MkPackage(tName, dir, layout, counts, ks)

\* the command lines: -type, -output, -receiver and the directory
Configs ==
    { [typeName |-> Str_Widget, output |-> Str_empty, receiver |-> Str_empty,
       dir |-> Str_dot],
      [typeName |-> Str_Elan, output |-> Str_empty, receiver |-> Str_empty,
       dir |-> Str_dot],
      [typeName |-> Str_Widget, output |-> Str_out_go, receiver |-> Str_self,
       dir |-> Str_model] }

-----------------------------------------------------------------------------
(* Generate, one step per iteration of the field loop and per call after   *)
(* it.                                                                     *)

\* an empty filesystem
EmptyFS ==
    << >>

\* (file, struct, field) index triples in the order of the three loops
RECURSIVE WorkFrom(_, _, _)
WorkFrom(p, f, s) ==
    IF f > Len(p.Files) THEN << >>
    ELSE IF s > Len(p.Files[f].Structs) THEN WorkFrom(p, f + 1, 1)
    ELSE [x \in 1..Len(p.Files[f].Structs[s].Fields) |-> <<f, s, x>>]
         \o WorkFrom(p, f, s + 1)

Work ==
    WorkFrom(pkg, 1, 1)

curFile ==
    pkg.Files[Work[pos][1]]

curStruct ==
    curFile.Structs[Work[pos][2]]

curField ==
    curStruct.Fields[Work[pos][3]]

InLoop ==
    pc = "loop" /\ pos <= Len(Work)

\* the state in which Generate starts
Start ==
    /\ pc = "loop"
    /\ pos = 1
    /\ accessors = << >>
    /\ imports = << >>
    /\ buf = << >>
    /\ content = << >>
    /\ outPath = Str_empty
    /\ returned = [err |-> "nil"]
    /\ fs = EmptyFS
    /\ writes = 0

\* packages of up to MaxFiles files, generated for type Widget with no
\* overrides
Init ==
    /\ typeName = Str_Widget
    /\ output = Str_empty
    /\ receiver = Str_empty
    /\ IsPackage(pkg, Str_Widget, Str_dot, MaxFiles)
    /\ Start

\* packages of one file, generated under every command line of Configs
InitNaming ==
    /\ \E cfg \in Configs :
          /\ typeName = cfg.typeName
          /\ output = cfg.output
          /\ receiver = cfg.receiver
          /\ IsPackage(pkg, cfg.typeName, cfg.dir, 1)
    /\ Start

\* if st.Name != typeName { continue }
SkipStruct ==
    /\ InLoop
    /\ curStruct.Name # typeName
    /\ pos' = pos + Len(curStruct.Fields)
    /\ UNCHANGED <<pkg, typeName, output, receiver, pc, accessors, imports,
                   buf, content, outPath, returned, fs, writes>>

\* if field.Tag == nil { continue }
SkipField ==
    /\ InLoop
    /\ curStruct.Name = typeName
    /\ curField.Tag = NilPtr
    /\ pos' = pos + 1
    /\ UNCHANGED <<pkg, typeName, output, receiver, pc, accessors, imports,
                   buf, content, outPath, returned, fs, writes>>

\* the setter rendered before the getter
rendered_SetterFirst(structName, field) ==
    (IF Deref(field.Tag).Setter # NilPtr
     THEN <<setterGenerator(receiver, structName, field)>> ELSE << >>)
    \o (IF Deref(field.Tag).Getter # NilPtr
        THEN <<getterGenerator(receiver, structName, field)>> ELSE << >>)

\* the accessors one iteration appends when rendering succeeds
rendered(structName, field) ==
    (IF Deref(field.Tag).Getter # NilPtr
     THEN <<getterGenerator(receiver, structName, field)>> ELSE << >>)
    \o (IF Deref(field.Tag).Setter # NilPtr
        THEN <<setterGenerator(receiver, structName, field)>> ELSE << >>)

\* one iteration of the field loop, template execution succeeding
ProcessField ==
    /\ InLoop
    /\ curStruct.Name = typeName
    /\ curField.Tag # NilPtr
    /\ imports' = recordImport(imports, curFile, curField)
    /\ accessors' = accessors \o rendered(curStruct.Name, curField)
    /\ pos' = pos + 1
    /\ UNCHANGED <<pkg, typeName, output, receiver, pc, buf, content, outPath,
                   returned, fs, writes>>

\* a rendering failure that writes what was rendered so far
RenderFail_WritesPartial ==
    /\ InLoop
    /\ curStruct.Name = typeName
    /\ curField.Tag # NilPtr
    /\ imports' = recordImport(imports, curFile, curField)
    /\ accessors' = accessors
    /\ fs' = (outputFile(output, typeName, pkg.Dir) :>
                write(pkg.Name, imports, accessors, SortStrings(<< >>))) @@ fs
    /\ writes' = writes + 1
    /\ returned' = [err |-> "RenderError"]
    /\ pc' = "done"
    /\ UNCHANGED <<pkg, typeName, output, receiver, pos, buf, content,
                   outPath>>

\* one iteration of the field loop in which t.Execute fails, in the getter
\* or, the getter already appended, in the setter: return err
RenderFail ==
    /\ InLoop
    /\ curStruct.Name = typeName
    /\ curField.Tag # NilPtr
    /\ imports' = recordImport(imports, curFile, curField)
    /\ \/ /\ Deref(curField.Tag).Getter # NilPtr
          /\ accessors' = accessors
       \/ /\ Deref(curField.Tag).Setter # NilPtr
          /\ accessors' =
                accessors \o
                (IF Deref(curField.Tag).Getter # NilPtr
                 THEN <<getterGenerator(receiver, curStruct.Name, curField)>>
                 ELSE << >>)
    /\ returned' = [err |-> "RenderError"]
    /\ pc' = "done"
    /\ UNCHANGED <<pkg, typeName, output, receiver, pos, buf, content,
                   outPath, fs, writes>>

\* g.write(pkg.Name, imports, accessors)
Write ==
    /\ pc = "loop"
    /\ pos > Len(Work)
    /\ \E rangeOrder \in Orders(DOMAIN imports) :
          buf' = write(pkg.Name, imports, accessors, rangeOrder)
    /\ pc' = "format"
    /\ UNCHANGED <<pkg, typeName, output, receiver, pos, accessors, imports,
                   content, outPath, returned, fs, writes>>

\* content, err := g.format() with err == nil
FormatOk ==
    /\ pc = "format"
    /\ format(buf).err = "nil"
    /\ content' = format(buf).src
    /\ outPath' = outputFile(output, typeName, pkg.Dir)
    /\ pc' = "writefile"
    /\ UNCHANGED <<pkg, typeName, output, receiver, pos, accessors, imports,
                   buf, returned, fs, writes>>

\* content, err := g.format() with err != nil: return err
FormatFail ==
    /\ pc = "format"
    /\ format(buf).err # "nil"
    /\ content' = format(buf).src
    /\ returned' = [err |-> format(buf).err]
    /\ pc' = "done"
    /\ UNCHANGED <<pkg, typeName, output, receiver, pos, accessors, imports,
                   buf, outPath, fs, writes>>

\* return afero.WriteFile(fs, outputFile, content, 0644), the write succeeding
WriteFileOk ==
    /\ pc = "writefile"
    /\ fs' = (outPath :> content) @@ fs
    /\ writes' = writes + 1
    /\ returned' = [err |-> "nil"]
    /\ pc' = "done"
    /\ UNCHANGED <<pkg, typeName, output, receiver, pos, accessors, imports,
                   buf, content, outPath>>

\* return afero.WriteFile(...), the write failing: the file could not be
\* opened, or it was created or truncated and the write failed
WriteFileFail ==
    /\ pc = "writefile"
    /\ \/ fs' = fs
       \/ fs' = (outPath :> << >>) @@ fs
    /\ writes' = writes + 1
    /\ returned' = [err |-> "PersistError"]
    /\ pc' = "done"
    /\ UNCHANGED <<pkg, typeName, output, receiver, pos, accessors, imports,
                   buf, content, outPath>>

Next ==
    \/ SkipStruct
    \/ SkipField
    \/ ProcessField
    \/ RenderFail
    \/ Write
    \/ FormatOk
    \/ FormatFail
    \/ WriteFileOk
    \/ WriteFileFail

Spec ==
    Init /\ [][Next]_vars

SpecNaming ==
    InitNaming /\ [][Next]_vars

-----------------------------------------------------------------------------
(* Properties.                                                             *)

\* Generate returned nil: the file was written
Succeeded ==
    pc = "done" /\ returned.err = "nil"

\* the accessor texts among the lines of a buffer
FuncsOf(b) ==
    LET fl == SelectSeq(b, LAMBDA l : l.kind = "func")
    IN [i \in 1..Len(fl) |-> fl[i].text]

\* which template, struct, field and type an accessor text was rendered for
KeyOf(a) ==
    [tpl |-> a.tpl, Struct |-> a.Struct, Field |-> a.Field, Type |-> a.Type]

KeysOf(accs) ==
    [i \in 1..Len(accs) |-> KeyOf(accs[i])]

ExpectedOfField(st, f) ==
    IF f.Tag = NilPtr THEN << >>
    ELSE (IF Deref(f.Tag).Getter # NilPtr
          THEN <<[tpl |-> "getter", Struct |-> st.Name, Field |-> f.Name,
                  Type |-> f.DataType]>>
          ELSE << >>)
         \o (IF Deref(f.Tag).Setter # NilPtr
             THEN <<[tpl |-> "setter", Struct |-> st.Name, Field |-> f.Name,
                     Type |-> f.DataType]>>
             ELSE << >>)

RECURSIVE ExpectedOfFields(_, _)
ExpectedOfFields(st, fields) ==
    IF Len(fields) = 0 THEN << >>
    ELSE ExpectedOfField(st, Head(fields)) \o ExpectedOfFields(st, Tail(fields))

RECURSIVE ExpectedOfStructs(_, _)
ExpectedOfStructs(structs, tName) ==
    IF Len(structs) = 0 THEN << >>
    ELSE (IF Head(structs).Name = tName
          THEN ExpectedOfFields(Head(structs), Head(structs).Fields)
          ELSE << >>)
         \o ExpectedOfStructs(Tail(structs), tName)

RECURSIVE ExpectedOfFiles(_, _)
ExpectedOfFiles(files, tName) ==
    IF Len(files) = 0 THEN << >>
    ELSE ExpectedOfStructs(Head(files).Structs, tName)
         \o ExpectedOfFiles(Tail(files), tName)

IsPrefix(s, t) ==
    Len(s) <= Len(t) /\ s = SubSeq(t, 1, Len(s))

\* C1: the accessor functions of the written file are, file by file, struct
\* by struct of the requested name, tagged field by tagged field, the getter
\* if asked for and then the setter if asked for, and nothing else; while
\* the loop runs the accessors rendered so far are a prefix of that sequence.
C1_AccessorOrder ==
    /\ IsPrefix(KeysOf(accessors), ExpectedOfFiles(pkg.Files, typeName))
    /\ Succeeded =>
          KeysOf(FuncsOf(fs[outPath])) = ExpectedOfFiles(pkg.Files, typeName)

\* a written file with accessors from the structs of two files, the first of
\* which gave a getter followed by a setter
C1_Witness ==
    /\ Succeeded
    /\ Len(pkg.Files) = 2
    /\ Len(FuncsOf(fs[outPath])) >= 3
    /\ FuncsOf(fs[outPath])[1].tpl = "getter"
    /\ FuncsOf(fs[outPath])[2].tpl = "setter"
    /\ FuncsOf(fs[outPath])[2].Field = FuncsOf(fs[outPath])[1].Field

\* the name with its first letter capitalized
Capitalize(name) ==
    <<ToTitleRune(name[1])>> \o Tail(name)

\* the fields of the structs of the requested name that have this name
FieldsNamed(name) ==
    { f \in UNION { UNION { { st.Fields[x] : x \in 1..Len(st.Fields) } :
                        st \in { fl.Structs[k] : k \in { k2 \in 1..Len(fl.Structs) :
                                    fl.Structs[k2].Name = typeName } } } :
                    fl \in { pkg.Files[i] : i \in 1..Len(pkg.Files) } } :
        f.Name = name }

\* C2: a getter is named by its tag, the value if there is one and the
\* capitalized field name otherwise, a setter the value or "Set" and the
\* capitalized field name; a field that asks for a default getter and no
\* setter has one accessor, a getter.
C2_MethodNames ==
    /\ \A i \in 1..Len(accessors) :
          \E f \in FieldsNamed(accessors[i].Field) :
             /\ f.Tag # NilPtr
             /\ accessors[i].tpl = "getter" =>
                   /\ Deref(f.Tag).Getter # NilPtr
                   /\ accessors[i].MethodName =
                         IF Deref(f.Tag).Getter = Ptr(Str_empty)
                         THEN Capitalize(f.Name)
                         ELSE Deref(Deref(f.Tag).Getter)
             /\ accessors[i].tpl = "setter" =>
                   /\ Deref(f.Tag).Setter # NilPtr
                   /\ accessors[i].MethodName =
                         IF Deref(f.Tag).Setter = Ptr(Str_empty)
                         THEN Str_Set \o Capitalize(f.Name)
                         ELSE Deref(Deref(f.Tag).Setter)
    /\ (pc # "loop" /\ returned.err # "RenderError") =>
          \A f \in UNION { FieldsNamed(FieldNames[n]) : n \in 1..Len(FieldNames) } :
             (f.Tag # NilPtr /\ Deref(f.Tag).Getter = Ptr(Str_empty)
                             /\ Deref(f.Tag).Setter = NilPtr) =>
                /\ Cardinality({ i \in 1..Len(accessors) :
                                    accessors[i].Field = f.Name }) = 1
                /\ \A i \in 1..Len(accessors) :
                      accessors[i].Field = f.Name =>
                         /\ accessors[i].tpl = "getter"
                         /\ accessors[i].MethodName = Capitalize(f.Name)

\* a struct with a default getter alone and with a named getter and setter
C2_Witness ==
    /\ pc = "format"
    /\ Len(accessors) = 3
    /\ \E i \in 1..3 : accessors[i].MethodName = Str_Label
    /\ \E i \in 1..3 : accessors[i].MethodName = Str_Relabel
    /\ \E i \in 1..3 :
          /\ accessors[i].MethodName = Capitalize(accessors[i].Field)
          /\ accessors[i].tpl = "getter"

\* the declared type, a leading pointer marker stripped, has a qualifier
HasQualifier(field) ==
    IndexRune(TrimPrefixStar(field.DataType), Str_dot[1]) > 0

\* the part of the declared type before its first "."
QualifierOf(field) ==
    LET t == TrimPrefixStar(field.DataType)
    IN SubSeq(t, 1, IndexRune(t, Str_dot[1]) - 1)

\* the field asks for a getter or a setter
ProducesAccessor(field) ==
    /\ field.Tag # NilPtr
    /\ (Deref(field.Tag).Getter # NilPtr \/ Deref(field.Tag).Setter # NilPtr)

\* the (file, struct, field) triples of the structs of the requested name
\* that the loop has gone past
Processed ==
    { Work[k] : k \in { k2 \in 1..(IF pos - 1 <= Len(Work) THEN pos - 1 ELSE Len(Work)) :
                pkg.Files[Work[k2][1]].Structs[Work[k2][2]].Name = typeName } }

FieldAt(t) ==
    pkg.Files[t[1]].Structs[t[2]].Fields[t[3]]

\* C3: every alias of the import set is the qualifier of the declared type
\* of a field that produced a getter or a setter in this run.
C3_ImportsOnlyForAccessors ==
    Succeeded =>
       \A alias \in DOMAIN imports :
          \E t \in Processed :
             /\ ProducesAccessor(FieldAt(t))
             /\ HasQualifier(FieldAt(t))
             /\ QualifierOf(FieldAt(t)) = alias

\* C4: an iteration of the field loop on a field whose declared type, the
\* pointer marker stripped, has no "." leaves the import set as it was.
C4_LocalTypeNoImport ==
    [][(InLoop /\ pos' = pos + 1 /\ ~HasQualifier(curField))
          => imports' = imports]_vars

\* C5: when formatting fails, what Generate returns holds the unformatted
\* buffer next to the error.
C5_FormatErrorReturnsBuffer ==
    (pc = "done" /\ returned.err = "FormatError") =>
       ("buf" \in DOMAIN returned /\ returned.buf = buf)

\* the import set after the first k triples of Work
RECURSIVE ImportsUpTo(_)
ImportsUpTo(k) ==
    IF k = 0 THEN << >>
    ELSE LET t == Work[k]
             prev == ImportsUpTo(k - 1)
         IN IF pkg.Files[t[1]].Structs[t[2]].Name = typeName
                 /\ FieldAt(t).Tag # NilPtr
            THEN recordImport(prev, pkg.Files[t[1]], FieldAt(t))
            ELSE prev

\* the accessors after the first k triples of Work
RECURSIVE AccessorsUpTo(_)
AccessorsUpTo(k) ==
    IF k = 0 THEN << >>
    ELSE LET t == Work[k]
             prev == AccessorsUpTo(k - 1)
         IN IF pkg.Files[t[1]].Structs[t[2]].Name = typeName
                 /\ FieldAt(t).Tag # NilPtr
            THEN prev \o rendered(typeName, FieldAt(t))
            ELSE prev

\* C6: the buffer g.write assembles, the output path and the content of the
\* written file are functions of the package, the type name and the two
\* overrides: they are the same for every order in which the import map is
\* ranged over.
C6_Deterministic ==
    /\ pc = "format" =>
          \A o \in Orders(DOMAIN ImportsUpTo(Len(Work))) :
             buf = write(pkg.Name, ImportsUpTo(Len(Work)),
                         AccessorsUpTo(Len(Work)), o)
    /\ Succeeded =>
          /\ outPath = outputFile(output, typeName, pkg.Dir)
          /\ DOMAIN fs = {outPath}
          /\ \A o \in Orders(DOMAIN ImportsUpTo(Len(Work))) :
                fs[outPath] =
                   format(write(pkg.Name, ImportsUpTo(Len(Work)),
                                AccessorsUpTo(Len(Work)), o)).src

\* a written file that imports two packages, listed by gofmt in another
\* order than the order of their aliases
C6_Witness ==
    /\ Succeeded
    /\ Cardinality(DOMAIN imports) = 2
    /\ fs[outPath] # buf

\* C8: every accessor has the same receiver in its signature and its body:
\* the receiver override if there is one, else the lowercase of the first
\* character of the struct name.
C8_ReceiverName ==
    \A i \in 1..Len(accessors) :
       /\ accessors[i].Receiver = accessors[i].BodyReceiver
       /\ accessors[i].Receiver =
             IF receiver # Str_empty
             THEN receiver
             ELSE <<ToLowerRune(accessors[i].Struct[1])>>

\* C9: a field that produces an accessor and whose type has qualifier q, in
\* a file that imports q as path p, makes the import set map q to p.
C9_FileScopedImports ==
    Succeeded =>
       \A t \in Processed :
          (ProducesAccessor(FieldAt(t)) /\ HasQualifier(FieldAt(t))) =>
             \A n \in 1..Len(pkg.Files[t[1]].Imports) :
                pkg.Files[t[1]].Imports[n].Name = QualifierOf(FieldAt(t)) =>
                   /\ QualifierOf(FieldAt(t)) \in DOMAIN imports
                   /\ imports[QualifierOf(FieldAt(t))] =
                         pkg.Files[t[1]].Imports[n].PkgPath

\* C10: the filesystem is written at most once and nothing follows the
\* write; after a rendering failure nothing was written and the filesystem
\* is as it was.
C10_WriteOnceAndLast ==
    /\ writes <= 1
    /\ writes = 1 => pc = "done"
    /\ (pc = "done" /\ returned.err = "RenderError") =>
          (writes = 0 /\ fs = EmptyFS)

\* a rendering failure after two accessors were rendered
C10_Witness ==
    /\ pc = "done"
    /\ returned.err = "RenderError"
    /\ Len(accessors) >= 2
    /\ fs = EmptyFS

-----------------------------------------------------------------------------
(* The output file name, on its own: outputFile applied to every short     *)
(* type name over a small alphabet and to the names of the examples.       *)

\* longest generated type name
MaxNameLen ==
    4

\* A B a b 1 _
NameAlphabet ==
    {65, 66, 97, 98, 49, 95}

TypeNames ==
    UNION { [1..n -> NameAlphabet] : n \in 1..MaxNameLen }
       \cup {Str_UserProfile, Str_Widget, Str_HTTPServer}

InitOutputFile ==
    /\ typeName \in TypeNames
    /\ output \in {Str_empty, Str_out_go}
    /\ receiver = Str_empty
    /\ \E dir \in {Str_dot, Str_model} :
          pkg = [Name |-> Str_model, Dir |-> dir, Files |-> << >>]
    /\ Start

\* outputFile := g.outputFile(output, typeName, pkg.Dir)
ResolveOutput ==
    /\ pc = "loop"
    /\ outPath' = outputFile(output, typeName, pkg.Dir)
    /\ pc' = "done"
    /\ UNCHANGED <<pkg, typeName, output, receiver, pos, accessors, imports,
                   buf, content, returned, fs, writes>>

NextOutputFile ==
    ResolveOutput

SpecOutputFile ==
    InitOutputFile /\ [][NextOutputFile]_vars

\* an underscore goes before the capital letter at index j: the capital is
\* followed by a lowercase letter (pass 1) or preceded by a lowercase letter
\* or a digit (pass 2)
Boundary(s, j) ==
    /\ j >= 2
    /\ s[j] \in AsciiUpper
    /\ \/ (j + 1 <= Len(s) /\ s[j + 1] \in AsciiLower)
       \/ s[j - 1] \in AsciiLower
       \/ s[j - 1] \in AsciiDigit

RECURSIVE SnakeFrom(_, _)
SnakeFrom(s, j) ==
    IF j > Len(s) THEN << >>
    ELSE (IF Boundary(s, j) THEN Str_underscore ELSE << >>)
         \o <<ToLowerRune(s[j])>> \o SnakeFrom(s, j + 1)

\* the path of a file of this name in the directory
InDir(dir, file) ==
    IF dir = Str_dot THEN file ELSE dir \o Str_slash \o file

\* C7: with no output override the output file is, in the scanned
\* directory, the type name with an underscore at the boundaries of pass 1
\* and pass 2, lowercased, with "_accessor.go" appended; UserProfile gives
\* user_profile_accessor.go, Widget widget_accessor.go and HTTPServer
\* http_server_accessor.go.
C7_OutputFileName ==
    (pc = "done" /\ output = Str_empty) =>
       /\ outPath = InDir(pkg.Dir, SnakeFrom(typeName, 1) \o Str_accessor_go)
       /\ typeName = Str_UserProfile =>
             outPath = InDir(pkg.Dir, Str_user_profile_accessor_go)
       /\ typeName = Str_Widget =>
             outPath = InDir(pkg.Dir, Str_widget_accessor_go)
       /\ typeName = Str_HTTPServer =>
             outPath = InDir(pkg.Dir, Str_http_server_accessor_go)

\* the file name of HTTPServer, resolved in directory "model"
C7_Witness ==
    /\ pc = "done"
    /\ output = Str_empty
    /\ typeName = Str_HTTPServer
    /\ pkg.Dir = Str_model
    /\ outPath = Str_model \o Str_slash \o Str_http_server_accessor_go

====
